---- MODULE Spec2Model ----
(***************************************************************************)
(* Trade surveillance: the Evidence Reconciliation Engine.                 *)
(*                                                                         *)
(* A day's orders are reconciled against call recordings (audio channel)   *)
(* and e-mailed trade instructions (email channel).  The engine's Python   *)
(* scripts are not part of the source tree at hand; the tree holds their   *)
(* documentation (scoring rubric, matching logic, highlighting logic, code *)
(* excerpts) and the dashboard.  The definitions below are translated from *)
(* those documentation lines and, where the documentation is silent, from  *)
(* the sections of the specification.                                      *)
(*                                                                         *)
(* Quantities, prices and times are integers.  Times are minutes of the    *)
(* trading day.  Confidences are kept in tenths of a percent (889 is       *)
(* 88.9%), so that 160/180 and 115/180 are told apart the way the          *)
(* documentation prints them.                                              *)
(***************************************************************************)
EXTENDS Integers, Sequences, FiniteSets, TLC

(***************************************************************************)
(* Sentinels of the instruction fields.                                    *)
(***************************************************************************)
\* the "current market price" sentinel of an instruction's price
CMP == -1
\* a quantity or price that could not be parsed is treated as absent
ABSENT == -2

(***************************************************************************)
(* The scoring rubric of the email matcher.                                *)
(***************************************************************************)
RubricTotal == 180
ClientPoints == 100
SidePoints == 15
SymbolPoints == 20
QuantityPoints == 25
PricePoints == 20
TimePoints == 20
\* time proximity: full points within 2 hours (minutes)
TimeWindow == 120
\* audio: tight window of +/- 5 minutes around the call
AudioWindow == 5
\* quantity typo guard: larger / smaller > 100
TypoRatio == 100
\* split execution and price discrepancy: currency-unit tolerance
PriceTolerance == 2
\* split execution: absolute tolerance on the summed quantity
QuantityTolerance == 0
\* a single order "reaches an acceptable score" at the 100% line
AcceptableScore == 180
\* 100% in tenths of a percent
FullConfidence == 1000

(***************************************************************************)
(* Normalizer.                                                             *)
(***************************************************************************)
\* institutional prefixes prepended to partial client codes
ClientPrefixTable ==
    [c \in {"WM00542", "05523"} |->
        IF c = "WM00542" THEN "NEOWM00542" ELSE "NEO05523"]

normalize_client_code(code) ==
    IF code \in DOMAIN ClientPrefixTable THEN ClientPrefixTable[code] ELSE code

\* alias table: free-text company names to canonical tickers
SymbolAliasTable ==
    [s \in {"blue jet healthcare", "Energy Infrastructure Trust"} |->
        IF s = "blue jet healthcare" THEN "BLUEJET" ELSE "ENERGYINF"]

normalize_symbol(sym) ==
    IF sym \in DOMAIN SymbolAliasTable THEN SymbolAliasTable[sym] ELSE sym

\* the identifier is used as the order book holds it, no conversion
normalize_order_id_raw(raw) == raw

\* int(float(val)) does not return: float() gave infinity and int() raised
\* OverflowError, which the except clause does not catch
Raised == [n |-> 0, form |-> "OverflowError"]

\* A raw order identifier is the text of an integer n, written as the
\* integer ("int"), with a decimal tail "n.0" ("float"), with an exponent
\* ("exp", as in "2.509e13"), with an exponent beyond the range of a double
\* ("huge", as in "1e400"), or it is not numeric ("text"), possibly ending
\* in ".0" ("text.0", as in "BUY00929.0"); an empty cell is "missing".
\* str(int(float(val))) renders the integer; a value that float() rejects
\* goes through the except branch, which strips a trailing ".0".
normalize_order_id(raw) ==
    IF raw.form = "missing" THEN raw
    ELSE IF raw.form \in {"int", "float", "exp"}
    THEN [n |-> raw.n, form |-> "int"]
    ELSE IF raw.form = "huge" THEN Raised
    ELSE IF raw.form = "text.0" THEN [n |-> raw.n, form |-> "text"]
    ELSE raw

(***************************************************************************)
(* Small arithmetic helpers.                                               *)
(***************************************************************************)
Abs(x) == IF x < 0 THEN -x ELSE x
Max2(a, b) == IF a >= b THEN a ELSE b
Min2(a, b) == IF a <= b THEN a ELSE b

RECURSIVE SumOver(_, _)
\* sum of f[x] over the finite set S
SumOver(S, f) ==
    IF S = {} THEN 0
    ELSE LET x == CHOOSE y \in S : TRUE
         IN  f[x] + SumOver(S \ {x}, f)

(***************************************************************************)
(* Records.                                                                *)
(*   Order       [id, client, symbol, side, qty, price, ts, status]        *)
(*   Call        [id, client, start, end]                                  *)
(*   Instruction [id, client, symbol, side, qty, price, ts]                *)
(*               qty is a number or ABSENT; price a number, CMP or ABSENT  *)
(*   MatchCandidate [channel, evidence, orders, raw, confidence,           *)
(*               matchType]; orders is the set of order keys it covers     *)
(*   Discrepancy [kind, severity, tag, instructed, executed]               *)
(***************************************************************************)
\* the key of an order: its normalized identifier
OrderKey(o) == normalize_order_id(o.id)

NoCandidate ==
    [channel |-> "none", evidence |-> 0, orders |-> {}, raw |-> 0,
     confidence |-> 0, matchType |-> "none"]

(***************************************************************************)
(* Email Instruction Matcher: the rubric.                                  *)
(***************************************************************************)
\* the client code is not compared
ClientMatch_any_client(i, o) == TRUE

ClientMatch(i, o) ==
    normalize_client_code(i.client) = normalize_client_code(o.client)

SideMatch(i, o) == i.side = o.side

SymbolMatch(i, o) == normalize_symbol(i.symbol) = normalize_symbol(o.symbol)

QuantityMatch(instructed, executed) ==
    instructed # ABSENT /\ instructed = executed

\* the sentinel is compared like a number
PriceMatch_numeric_only(instructed, executed) ==
    instructed # ABSENT /\ instructed = executed

\* the CMP sentinel matches any executed price
PriceMatch(instructed, executed) ==
    \/ instructed = CMP
    \/ instructed # ABSENT /\ instructed = executed

TimeDistance(i, o) == Abs(o.ts - i.ts)

\* full points inside the window, then a linear decay that reaches 0 at
\* twice the window
TimeProximityPoints(d) ==
    IF d <= TimeWindow THEN TimePoints
    ELSE IF d >= 2 * TimeWindow THEN 0
    ELSE (TimePoints * (2 * TimeWindow - d)) \div TimeWindow

\* every criterion only adds its points
RubricScore_no_mandatory(clientOk, sideOk, symbolOk, qtyOk, priceOk, timePts) ==
    (IF clientOk THEN ClientPoints ELSE 0)
    + (IF sideOk THEN SidePoints ELSE 0)
    + (IF symbolOk THEN SymbolPoints ELSE 0)
    + (IF qtyOk THEN QuantityPoints ELSE 0)
    + (IF priceOk THEN PricePoints ELSE 0)
    + timePts

\* the side criterion only adds its points
RubricScore_side_optional(clientOk, sideOk, symbolOk, qtyOk, priceOk, timePts) ==
    IF ~clientOk THEN 0
    ELSE ClientPoints
         + (IF sideOk THEN SidePoints ELSE 0)
         + (IF symbolOk THEN SymbolPoints ELSE 0)
         + (IF qtyOk THEN QuantityPoints ELSE 0)
         + (IF priceOk THEN PricePoints ELSE 0)
         + timePts

\* the additive rubric as a function of the comparison outcomes
RubricScore(clientOk, sideOk, symbolOk, qtyOk, priceOk, timePts) ==
    IF ~clientOk \/ ~sideOk THEN 0
    ELSE ClientPoints + SidePoints
         + (IF symbolOk THEN SymbolPoints ELSE 0)
         + (IF qtyOk THEN QuantityPoints ELSE 0)
         + (IF priceOk THEN PricePoints ELSE 0)
         + timePts

calculate_match_score(i, o) ==
    RubricScore(ClientMatch(i, o), SideMatch(i, o), SymbolMatch(i, o),
                QuantityMatch(i.qty, o.qty), PriceMatch(i.price, o.price),
                TimeProximityPoints(TimeDistance(i, o)))

\* an unparseable quantity or price drops its criterion from the denominator
RubricDenominator(i) ==
    RubricTotal
    - (IF i.qty = ABSENT THEN QuantityPoints ELSE 0)
    - (IF i.price = ABSENT THEN PricePoints ELSE 0)

\* score / 180 x 100, in tenths of a percent, rounded to nearest
ConfidencePercent(raw, denominator) ==
    (raw * FullConfidence + denominator \div 2) \div denominator

(***************************************************************************)
(* Email Instruction Matcher: winner and split execution.                  *)
(***************************************************************************)
\* the last of the tied orders is kept
Better_last_id(i, a, b) ==
    LET sa == calculate_match_score(i, a)
        sb == calculate_match_score(i, b)
        da == TimeDistance(i, a)
        db == TimeDistance(i, b)
    IN  \/ sa > sb
        \/ sa = sb /\ da < db
        \/ sa = sb /\ da = db /\ OrderKey(a).n > OrderKey(b).n

\* equal score and equal proximity leave the orders tied
Better_no_id_tiebreak(i, a, b) ==
    LET sa == calculate_match_score(i, a)
        sb == calculate_match_score(i, b)
        da == TimeDistance(i, a)
        db == TimeDistance(i, b)
    IN  \/ sa > sb
        \/ sa = sb /\ da < db

\* a beats b for instruction i: (1) score, (2) time proximity, (3) order id
Better(i, a, b) ==
    LET sa == calculate_match_score(i, a)
        sb == calculate_match_score(i, b)
        da == TimeDistance(i, a)
        db == TimeDistance(i, b)
    IN  \/ sa > sb
        \/ sa = sb /\ da < db
        \/ sa = sb /\ da = db /\ OrderKey(a).n < OrderKey(b).n

Scored(i, ords) == {o \in ords : calculate_match_score(i, o) > 0}

\* the sequences in which a set of orders can be presented
Presentations(ords) ==
    {s \in [1..Cardinality(ords) -> ords] :
        \A o \in ords : \E x \in 1..Cardinality(ords) : s[x] = o}

RECURSIVE ScanWinner(_, _, _)
\* the scan keeps the best order met so far
ScanWinner(i, presented, best) ==
    IF presented = <<>> THEN best
    ELSE ScanWinner(i, Tail(presented),
                    IF Better(i, Head(presented), best)
                    THEN Head(presented) ELSE best)

\* the best of the presented orders with a non-zero score
Winner(i, presented) ==
    LET IsScored(o) == calculate_match_score(i, o) > 0
        scored == SelectSeq(presented, IsScored)
    IN  ScanWinner(i, Tail(scored), Head(scored))

\* the same-symbol, same-side orders of the instruction's client that day
SplitGroup(i, ords) ==
    {o \in ords : ClientMatch(i, o) /\ SideMatch(i, o) /\ SymbolMatch(i, o)}

\* the quantity of the largest order stands for the group
GroupQuantity_largest(G) ==
    CHOOSE q \in {o.qty : o \in G} : \A o \in G : o.qty <= q

GroupQuantity(G) ==
    SumOver({OrderKey(o) : o \in G},
            [k \in {OrderKey(o) : o \in G} |->
                (CHOOSE o \in G : OrderKey(o) = k).qty])

\* sum of quantity x price: the numerator of the weighted average price
GroupValue(G) ==
    SumOver({OrderKey(o) : o \in G},
            [k \in {OrderKey(o) : o \in G} |->
                LET o == CHOOSE x \in G : OrderKey(x) = k
                IN  o.qty * o.price])

GroupTimeDistance(i, G) ==
    CHOOSE d \in {TimeDistance(i, o) : o \in G} :
        \A e \in {TimeDistance(i, o) : o \in G} : d <= e

SplitQualifies(i, G) ==
    /\ Cardinality(G) >= 2
    /\ i.qty # ABSENT
    /\ GroupQuantity(G) > 0
    /\ Abs(GroupQuantity(G) - i.qty) <= QuantityTolerance
    /\ \/ i.price = CMP
       \/ /\ i.price # ABSENT
          /\ Abs(GroupValue(G) - i.price * GroupQuantity(G))
                <= PriceTolerance * GroupQuantity(G)

\* the rubric with the aggregate quantity and weighted price substituted
SplitScore(i, G) ==
    RubricScore(TRUE, TRUE, TRUE,
                QuantityMatch(i.qty, GroupQuantity(G)),
                i.price = CMP
                    \/ (i.price # ABSENT
                        /\ GroupValue(G) = i.price * GroupQuantity(G)),
                TimeProximityPoints(GroupTimeDistance(i, G)))

SingleMatchType(i, o) ==
    IF SymbolMatch(i, o) /\ QuantityMatch(i.qty, o.qty)
          /\ PriceMatch(i.price, o.price)
    THEN "exact_match" ELSE "partial_match"

\* the one MatchCandidate an instruction yields, NoCandidate when no order
\* passes the mandatory criteria
match_email_to_orders(i, presented) ==
    LET ords == {presented[x] : x \in DOMAIN presented}
    IN
    IF Scored(i, ords) = {} THEN NoCandidate
    ELSE LET w == Winner(i, presented)
             G == SplitGroup(i, ords)
         IN  IF calculate_match_score(i, w) < AcceptableScore
                  /\ SplitQualifies(i, G)
             THEN [channel |-> "email", evidence |-> i.id,
                   orders |-> {OrderKey(o) : o \in G},
                   raw |-> SplitScore(i, G),
                   confidence |->
                       ConfidencePercent(SplitScore(i, G), RubricDenominator(i)),
                   matchType |-> "split_execution"]
             ELSE [channel |-> "email", evidence |-> i.id,
                   orders |-> {OrderKey(w)},
                   raw |-> calculate_match_score(i, w),
                   confidence |->
                       ConfidencePercent(calculate_match_score(i, w),
                                         RubricDenominator(i)),
                   matchType |-> SingleMatchType(i, w)]

\* the reason recorded with an unmatched instruction
UnmatchedReason(i, ords) ==
    IF \A o \in ords : ~ClientMatch(i, o) THEN "client code not found"
    ELSE "no order with matching side"

(***************************************************************************)
(* Audio Candidate Matcher.                                                *)
(***************************************************************************)
CallOfClient(c, o) ==
    normalize_client_code(c.client) = normalize_client_code(o.client)

\* the end of the call is not looked at
InTimeRange_no_end(c, o) == o.ts >= c.start - AudioWindow

\* stage 1: the order lies within +/- 5 minutes of the call's start/end
InTimeRange(c, o) ==
    o.ts >= c.start - AudioWindow /\ o.ts <= c.end + AudioWindow

TightCalls(o, cs) == {c \in cs : CallOfClient(c, o) /\ InTimeRange(c, o)}

\* stage 2: any call of the same client that day
DailyCalls(o, cs) == {c \in cs : CallOfClient(c, o)}

FirstCall(cs) == CHOOSE c \in cs : \A d \in cs : c.id <= d.id

\* both stages carry the stage 1 baseline
audio_match_one_baseline(o, cs, baseline) ==
    IF TightCalls(o, cs) # {}
    THEN [channel |-> "audio", evidence |-> FirstCall(TightCalls(o, cs)).id,
          orders |-> {OrderKey(o)}, raw |-> 0,
          confidence |-> baseline.tight,
          matchType |-> "matched_in_time_range"]
    ELSE IF DailyCalls(o, cs) # {}
    THEN [channel |-> "audio", evidence |-> FirstCall(DailyCalls(o, cs)).id,
          orders |-> {OrderKey(o)}, raw |-> 0,
          confidence |-> baseline.tight,
          matchType |-> "matched_daily_fallback"]
    ELSE NoCandidate

\* matched_in_time_range, else matched_daily_fallback, else no candidate
audio_match(o, cs, baseline) ==
    IF TightCalls(o, cs) # {}
    THEN [channel |-> "audio", evidence |-> FirstCall(TightCalls(o, cs)).id,
          orders |-> {OrderKey(o)}, raw |-> 0,
          confidence |-> baseline.tight,
          matchType |-> "matched_in_time_range"]
    ELSE IF DailyCalls(o, cs) # {}
    THEN [channel |-> "audio", evidence |-> FirstCall(DailyCalls(o, cs)).id,
          orders |-> {OrderKey(o)}, raw |-> 0,
          confidence |-> baseline.fallback,
          matchType |-> "matched_daily_fallback"]
    ELSE NoCandidate

(***************************************************************************)
(* Discrepancy Analyzer.                                                   *)
(***************************************************************************)
\* the smaller quantity is divided by the larger one
detect_quantity_typo_inverted(email_qty, order_qty) ==
    Min2(email_qty, order_qty) > TypoRatio * Max2(email_qty, order_qty)

\* ratio = max(email_qty, order_qty) / min(email_qty, order_qty); ratio > 100
detect_quantity_typo(email_qty, order_qty) ==
    Max2(email_qty, order_qty) > TypoRatio * Min2(email_qty, order_qty)

\* the division in detect_quantity_typo has no guard: a zero quantity on
\* either side raises ZeroDivisionError
QuantityTypoRaises(email_qty, order_qty) == Min2(email_qty, order_qty) = 0

OrdersOf(cand, ords) == {o \in ords : OrderKey(o) \in cand.orders}

ExecutedQuantity(cand, ords) == GroupQuantity(OrdersOf(cand, ords))

\* the executed price of one order, the weighted average of a split group
ExecutedPrice(cand, o, ords) ==
    IF cand.matchType = "split_execution"
    THEN GroupValue(OrdersOf(cand, ords)) \div GroupQuantity(OrdersOf(cand, ords))
    ELSE o.price

QuantityMismatch(i, cand, ords) ==
    /\ i.qty # ABSENT
    /\ Abs(ExecutedQuantity(cand, ords) - i.qty) > QuantityTolerance

QuantityDiscrepancies(i, cand, ords) ==
    IF QuantityMismatch(i, cand, ords)
    THEN {[kind |-> "quantity",
           severity |->
               IF detect_quantity_typo(i.qty, ExecutedQuantity(cand, ords))
               THEN "critical" ELSE "medium",
           tag |-> "none",
           instructed |-> i.qty,
           executed |-> ExecutedQuantity(cand, ords)]}
    ELSE {}

PriceDiscrepancies(i, cand, o, ords) ==
    IF i.price = CMP
    THEN {[kind |-> "price", severity |-> "low", tag |-> "informational",
           instructed |-> CMP, executed |-> ExecutedPrice(cand, o, ords)]}
    ELSE IF i.price # ABSENT
            /\ Abs(ExecutedPrice(cand, o, ords) - i.price) > PriceTolerance
    THEN {[kind |-> "price", severity |-> "medium", tag |-> "none",
           instructed |-> i.price,
           executed |-> ExecutedPrice(cand, o, ords)]}
    ELSE {}

SymbolDiscrepancies(i, o) ==
    IF SymbolMatch(i, o) THEN {}
    ELSE {[kind |-> "symbol", severity |-> "high", tag |-> "none",
           instructed |-> 0, executed |-> 0]}

\* only a cancellation is looked for
StatusDiscrepancies_cancelled_only(o) ==
    IF o.status = "cancelled"
    THEN {[kind |-> "status", severity |-> "medium", tag |-> "review",
           instructed |-> 0, executed |-> 0]}
    ELSE {}

\* cancelled or rejected despite evidence: flagged review
StatusDiscrepancies(o) ==
    IF o.status \in {"cancelled", "rejected"}
    THEN {[kind |-> "status", severity |-> "medium", tag |-> "review",
           instructed |-> 0, executed |-> 0]}
    ELSE {}

InstructionOf(cand, ins) == CHOOSE i \in ins : i.id = cand.evidence

\* does the comparison of the chosen candidate raise?
AnalyzerRaises(cand, ords, ins) ==
    /\ cand.channel = "email"
    /\ QuantityMismatch(InstructionOf(cand, ins), cand, ords)
    /\ QuantityTypoRaises(InstructionOf(cand, ins).qty,
                          ExecutedQuantity(cand, ords))

\* the Discrepancy list of order o under its chosen candidate
analyze_discrepancies(cand, o, ords, ins) ==
    IF cand.channel = "email"
    THEN LET i == InstructionOf(cand, ins)
         IN  QuantityDiscrepancies(i, cand, ords)
                 \cup PriceDiscrepancies(i, cand, o, ords)
                 \cup SymbolDiscrepancies(i, o)
                 \cup StatusDiscrepancies(o)
    ELSE IF cand.channel = "audio" THEN StatusDiscrepancies(o)
    ELSE {}

(***************************************************************************)
(* Reconciliation Aggregator.                                              *)
(***************************************************************************)
\* the email candidates, in a sequence of them, that cover order key k
EmailCandidatesOf(k, cands) ==
    {cands[n] : n \in {m \in DOMAIN cands : k \in cands[m].orders}}

\* among equally confident candidates the one produced first is kept
BestEmail_first_produced(k, cands) ==
    IF EmailCandidatesOf(k, cands) = {} THEN NoCandidate
    ELSE cands[CHOOSE n \in DOMAIN cands :
                /\ k \in cands[n].orders
                /\ \A m \in DOMAIN cands :
                      k \in cands[m].orders =>
                          \/ cands[n].confidence > cands[m].confidence
                          \/ cands[n].confidence = cands[m].confidence
                             /\ n <= m]

\* the best email candidate of an order: highest confidence, then the
\* lowest instruction identifier
BestEmail(k, cands) ==
    IF EmailCandidatesOf(k, cands) = {} THEN NoCandidate
    ELSE CHOOSE c \in EmailCandidatesOf(k, cands) :
            \A d \in EmailCandidatesOf(k, cands) \ {c} :
                \/ c.confidence > d.confidence
                \/ c.confidence = d.confidence /\ c.evidence < d.evidence

\* on a tie the audio candidate is kept
ChooseCandidate_audio_on_tie(audio, email) ==
    IF audio.channel = "none" THEN email
    ELSE IF email.channel = "none" THEN audio
    ELSE IF audio.confidence >= email.confidence THEN audio
    ELSE email

\* precedence: higher confidence; on a tie email over audio
ChooseCandidate(audio, email) ==
    IF audio.channel = "none" THEN email
    ELSE IF email.channel = "none" THEN audio
    ELSE IF audio.confidence > email.confidence THEN audio
    ELSE email

\* the execution status of the order is not looked at
requires_audit_any_status(o, cand, discrepancies) ==
    \/ cand.channel = "none"
    \/ cand.channel # "none"
       /\ \E d \in discrepancies : d.severity = "critical"

requires_audit(o, cand, discrepancies) ==
    \/ o.status = "complete" /\ cand.channel = "none"
    \/ cand.channel # "none"
       /\ \E d \in discrepancies : d.severity = "critical"

\* one ReconciliationRecord per order, keyed by its normalized identifier
ReconciliationRecord(o, cand, discrepancies) ==
    [order |-> OrderKey(o),
     channel |-> cand.channel,
     confidence |-> cand.confidence,
     matchType |-> cand.matchType,
     evidence |-> cand.evidence,
     group |-> cand.orders,
     discrepancies |-> discrepancies,
     requires_audit |-> requires_audit(o, cand, discrepancies)]

(***************************************************************************)
(* Inputs of a run.                                                        *)
(***************************************************************************)
\* number of runs of the engine over the same inputs
MaxRuns == 2

ClientA == "NEOWM00542"
ClientB == "NEO05523"

\* the identifier column as the order book holds it: order 1 went through a
\* float column ("1.0"), order 2 is an integer
OrderId1 == [n |-> 1, form |-> "float"]
OrderId2 == [n |-> 2, form |-> "int"]

\* two calls resolved to a client by the mobile-number directory
CallA == [id |-> 1, client |-> ClientA, start |-> 598, end |-> 603]

AudioBaselines ==
    {[tight |-> 1000, fallback |-> 750], [tight |-> 950, fallback |-> 700]}

\* order books of the reconciliation runs (both channels)
Order1Domain ==
    [id : {OrderId1}, client : {ClientA}, symbol : {"BLUEJET"},
     side : {"BUY"}, qty : {40}, price : {500}, ts : {600, 870},
     status : {"complete", "cancelled", "rejected"}]

Order2Domain ==
    [id : {OrderId2}, client : {ClientA, ClientB}, symbol : {"BLUEJET"},
     side : {"BUY"}, qty : {60}, price : {500, 502}, ts : {600},
     status : {"complete", "cancelled"}]

\* a row of the order book whose identifier cell is empty
MissingId == [n |-> 0, form |-> "missing"]

MissingIdOrderDomain ==
    [id : {MissingId}, client : {ClientA, ClientB}, symbol : {"BLUEJET"},
     side : {"BUY"}, qty : {60}, price : {500}, ts : {600},
     status : {"complete"}]

OrderBooks ==
    {{a, b} : a \in Order1Domain, b \in Order2Domain}
    \cup {{a, b} : a \in Order1Domain, b \in MissingIdOrderDomain}

CallSets == {{}, {CallA}}

Instruction1Domain ==
    [id : {1}, client : {"WM00542"}, symbol : {"blue jet healthcare"},
     side : {"BUY"}, qty : {100, 40, 5000}, price : {500},
     ts : {600, 1100}]

Instruction2Domain ==
    [id : {2}, client : {"WM00542"}, symbol : {"blue jet healthcare"},
     side : {"BUY"}, qty : {40}, price : {CMP}, ts : {600}]
    \cup
    [id : {2}, client : {"NWM"}, symbol : {"blue jet healthcare"},
     side : {"BUY"}, qty : {40}, price : {500}, ts : {600}]
    \cup
    [id : {2}, client : {"WM00542"}, symbol : {"blue jet healthcare"},
     side : {"SELL"}, qty : {40}, price : {500}, ts : {600}]
    \cup
    [id : {2}, client : {"05523"}, symbol : {"blue jet healthcare"},
     side : {"BUY"}, qty : {60}, price : {500}, ts : {600}]

InstructionSets ==
    {{a} : a \in Instruction1Domain}
    \cup {{a, b} : a \in Instruction1Domain, b \in Instruction2Domain}

(***************************************************************************)
(* State of the engine.                                                    *)
(***************************************************************************)
VARIABLES
    orders,       \* the day's order book
    calls,        \* the day's call candidates
    instrs,       \* the day's email instructions
    baseline,     \* configured confidence baselines of the audio stages
    phase,        \* "ready", "matching", "done", "rejected", "failed"
    run,          \* number of the current run
    audio,        \* per order key: the audio candidate, once matched
    emails,       \* email candidates, in the order they were produced
    dispositions, \* per instruction: pending / matched / unmatched + reason
    pc,           \* per order key: "matching", "selected", "analyzed", "written"
    chosen,       \* per order key: the chosen candidate
    discs,        \* per order key: the discrepancy list
    records,      \* the ReconciliationRecords written by this run
    prevRecords,  \* the ReconciliationRecords of the previous run
    omsMatched,   \* numbers of the orders the OMS surveillance matches
    finalExists,  \* whether the Final Excel file exists
    finalStatus,  \* per order row: 'Email-Order Match Status' of the Final Excel
    analysisStatus, \* per order row: the same column of the analysis file
    omsJson,      \* order ids in the intermediate oms_matches_{date}.json
    step8Runs,    \* number of times Step 8 has run
    step9Runs,    \* number of times Step 9 has run
    step9Error,   \* whether a run of Step 9 ended in an uncaught exception
    currentView,  \* App: 'dashboard', 'process', 'upload' or 'drilldown'
    selectedMonth, \* App: the month shown
    dateFilter,   \* App: the date filter, "none" when start and end are null
    realData,     \* App: per month, the metrics displayed
    backendOrders, \* the order rows the backend serves
    fetches,      \* metric requests in flight
    mounts,       \* number of SurveillanceRunner instances mounted so far
    isRunning,    \* SurveillanceRunner: isRunning of the mounted instance
    posting,      \* runner instances whose POST /run is in flight
    jobStatus,    \* per job: status at the backend
    jobOwner,     \* per job: the runner instance that started it
    polls,        \* status-polling loops: job and "fetch" or "timer"
    statusRead,   \* per job: what its polling loop last received
    onCompleteCalls, \* per job: number of calls of onComplete
    selectedFileType, \* FileUpload: id of the selected file type, or "none"
    selection,    \* FileUpload: the FileList of the last change or drop event
    uploadedFiles, \* FileUpload: the uploaded-files list
    uploadError,  \* FileUpload: the error shown, or "none"
    uploadCount   \* FileUpload: number of uploads started so far

reportVars ==
    <<omsMatched, finalExists, finalStatus, analysisStatus, omsJson,
      step8Runs, step9Runs, step9Error>>

uploadVars ==
    <<selectedFileType, selection, uploadedFiles, uploadError, uploadCount>>

dashVars ==
    <<currentView, selectedMonth, dateFilter, realData, backendOrders,
      fetches, mounts, isRunning, posting, jobStatus, jobOwner, polls,
      statusRead, onCompleteCalls, uploadVars>>

engineVars ==
    <<orders, calls, instrs, baseline, phase, run, audio, emails,
      dispositions, pc, chosen, discs, records, prevRecords>>

vars ==
    <<orders, calls, instrs, baseline, phase, run, audio, emails,
      dispositions, pc, chosen, discs, records, prevRecords, omsMatched,
      finalExists, finalStatus, analysisStatus, omsJson, step8Runs,
      step9Runs, step9Error, currentView, selectedMonth, dateFilter,
      realData, backendOrders, fetches, mounts, isRunning, posting,
      jobStatus, jobOwner, polls, statusRead, onCompleteCalls,
      selectedFileType, selection, uploadedFiles, uploadError, uploadCount>>

inputs == <<orders, calls, instrs, baseline>>

\* the rows of the order files carry the order id as the file holds it
OrderRows == {o.id : o \in orders}

\* the report files before any step of the report pipeline has run
ReportIdle ==
    /\ omsMatched = {}
    /\ finalExists = FALSE
    /\ finalStatus = [id \in OrderRows |-> "none"]
    /\ analysisStatus = [id \in OrderRows |-> "none"]
    /\ omsJson = {}
    /\ step8Runs = 0
    /\ step9Runs = 0
    /\ step9Error = FALSE

\* bounds and values of the dashboard state
MaxJobs == 2
MaxMounts == 3

Jobs == 1..MaxJobs

Months == {"August", "September"}

\* start and end date both null
NoFilter == [startDate |-> 0, endDate |-> 0]

\* the initial value of realData: every metric of every month is 0
EmptyMetrics ==
    [totalTrades |-> 0, emailMatches |-> 0, omsMatches |-> 0,
     audioMatches |-> 0, unmatchedOrders |-> 0]

\* the request fetchRealData sends
RealFetch ==
    [kind |-> "real", month |-> "all", startDate |-> 0, endDate |-> 0]

metricVars == <<selectedMonth, dateFilter, realData, backendOrders, fetches>>

runnerVars ==
    <<mounts, isRunning, posting, jobStatus, jobOwner, polls, statusRead,
      onCompleteCalls>>

\* the dashboard as it is not in use
\* FileUpload as mounted: no file type selected, nothing uploaded
UploadIdle ==
    /\ selectedFileType = "none"
    /\ selection = <<>>
    /\ uploadedFiles = {}
    /\ uploadError = "none"
    /\ uploadCount = 0

DashboardIdle ==
    /\ UploadIdle
    /\ currentView = "dashboard"
    /\ selectedMonth = "September"
    /\ dateFilter = NoFilter
    /\ realData = [m \in Months |-> EmptyMetrics]
    /\ backendOrders = {}
    /\ fetches = {}
    /\ mounts = 0
    /\ isRunning = FALSE
    /\ posting = {}
    /\ jobStatus = [j \in Jobs |-> "none"]
    /\ jobOwner = [j \in Jobs |-> 0]
    /\ polls = {}
    /\ statusRead = [j \in Jobs |-> "none"]
    /\ onCompleteCalls = [j \in Jobs |-> 0]

Pending ==
    [channel |-> "pending", evidence |-> 0, orders |-> {}, raw |-> 0,
     confidence |-> 0, matchType |-> "none"]

PendingDisposition == [status |-> "pending", reason |-> "none"]

Keys == {OrderKey(o) : o \in orders}

OrderOf(k) == CHOOSE o \in orders : OrderKey(o) = k

InstructionIds == {i.id : i \in instrs}

\* the working state at the start of a run
StartRun ==
    /\ phase' = "ready"
    /\ audio' = [k \in Keys |-> Pending]
    /\ emails' = <<>>
    /\ dispositions' = [j \in InstructionIds |-> PendingDisposition]
    /\ pc' = [k \in Keys |-> "matching"]
    /\ chosen' = [k \in Keys |-> NoCandidate]
    /\ discs' = [k \in Keys |-> {}]
    /\ records' = {}

InitRun ==
    /\ phase = "ready"
    /\ run = 1
    /\ audio = [k \in Keys |-> Pending]
    /\ emails = <<>>
    /\ dispositions = [j \in InstructionIds |-> PendingDisposition]
    /\ pc = [k \in Keys |-> "matching"]
    /\ chosen = [k \in Keys |-> NoCandidate]
    /\ discs = [k \in Keys |-> {}]
    /\ records = {}
    /\ prevRecords = {}

Init ==
    /\ orders \in OrderBooks
    /\ calls \in CallSets
    /\ instrs \in InstructionSets
    /\ baseline \in AudioBaselines
    /\ InitRun
    /\ ReportIdle
    /\ DashboardIdle

(***************************************************************************)
(* Operations of a run.                                                    *)
(***************************************************************************)
\* the input is not inspected
Validate_accept_all ==
    /\ phase = "ready"
    /\ phase' = "matching"
    /\ UNCHANGED <<inputs, reportVars, dashVars, run, audio, emails, dispositions, pc,
                   chosen, discs, records, prevRecords>>

\* structurally invalid input (an order without identifier) is rejected
\* before matching begins
Validate ==
    /\ phase = "ready"
    /\ phase' = IF \A o \in orders : o.id.form # "missing"
                THEN "matching" ELSE "rejected"
    /\ UNCHANGED <<inputs, reportVars, dashVars, run, audio, emails, dispositions, pc, chosen,
                   discs, records, prevRecords>>

\* the audio matcher handles one order
AudioMatch(k) ==
    /\ phase = "matching"
    /\ audio[k] = Pending
    /\ audio' = [audio EXCEPT ![k] = audio_match(OrderOf(k), calls, baseline)]
    /\ UNCHANGED <<inputs, reportVars, dashVars, phase, run, emails, dispositions, pc, chosen,
                   discs, records, prevRecords>>

\* the email matcher handles one instruction: a candidate, or an explicit
\* unmatched disposition with its reason
EmailMatch(j) ==
    /\ phase = "matching"
    /\ dispositions[j].status = "pending"
    /\ \E presented \in Presentations(orders) :
       LET i == CHOOSE x \in instrs : x.id = j
           c == match_email_to_orders(i, presented)
       IN  IF c.channel = "email"
           THEN /\ emails' = Append(emails, c)
                /\ dispositions' =
                       [dispositions EXCEPT
                           ![j] = [status |-> "matched", reason |-> "none"]]
           ELSE /\ emails' = emails
                /\ dispositions' =
                       [dispositions EXCEPT
                           ![j] = [status |-> "unmatched",
                                   reason |-> UnmatchedReason(i, orders)]]
    /\ UNCHANGED <<inputs, reportVars, dashVars, phase, run, audio, pc, chosen, discs, records,
                   prevRecords>>

\* the aggregator reads both channels of one order and selects
Select(k) ==
    /\ phase = "matching"
    /\ pc[k] = "matching"
    /\ audio[k] # Pending
    /\ \A j \in InstructionIds : dispositions[j].status # "pending"
    /\ chosen' = [chosen EXCEPT
                     ![k] = ChooseCandidate(audio[k], BestEmail(k, emails))]
    /\ pc' = [pc EXCEPT ![k] = "selected"]
    /\ UNCHANGED <<inputs, reportVars, dashVars, phase, run, audio, emails, dispositions, discs,
                   records, prevRecords>>

\* the comparison does not wait for the selection
Analyze_before_selection(k) ==
    /\ phase = "matching"
    /\ pc[k] \in {"matching", "selected"}
    /\ IF AnalyzerRaises(chosen[k], orders, instrs)
       THEN /\ phase' = "failed"
            /\ UNCHANGED <<pc, discs>>
       ELSE /\ discs' = [discs EXCEPT
                            ![k] = analyze_discrepancies(chosen[k], OrderOf(k),
                                                         orders, instrs)]
            /\ pc' = [pc EXCEPT ![k] = "analyzed"]
            /\ UNCHANGED phase
    /\ UNCHANGED <<inputs, reportVars, dashVars, run, audio, emails, dispositions,
                   chosen, records, prevRecords>>

\* the discrepancy analyzer compares the chosen candidate of one order
Analyze(k) ==
    /\ phase = "matching"
    /\ pc[k] = "selected"
    /\ IF AnalyzerRaises(chosen[k], orders, instrs)
       THEN /\ phase' = "failed"
            /\ UNCHANGED <<pc, discs>>
       ELSE /\ discs' = [discs EXCEPT
                            ![k] = analyze_discrepancies(chosen[k], OrderOf(k),
                                                         orders, instrs)]
            /\ pc' = [pc EXCEPT ![k] = "analyzed"]
            /\ UNCHANGED phase
    /\ UNCHANGED <<inputs, reportVars, dashVars, run, audio, emails, dispositions, chosen, records,
                   prevRecords>>

\* the final record of one order is written
WriteRecord(k) ==
    /\ phase = "matching"
    /\ pc[k] = "analyzed"
    /\ records' = records
           \cup {ReconciliationRecord(OrderOf(k), chosen[k], discs[k])}
    /\ pc' = [pc EXCEPT ![k] = "written"]
    /\ UNCHANGED <<inputs, reportVars, dashVars, phase, run, audio, emails, dispositions, chosen,
                   discs, prevRecords>>

Finish ==
    /\ phase = "matching"
    /\ \A k \in Keys : pc[k] = "written"
    /\ phase' = "done"
    /\ UNCHANGED <<inputs, reportVars, dashVars, run, audio, emails, dispositions, pc, chosen,
                   discs, records, prevRecords>>

\* the engine is run again on the same inputs; the new run supersedes
Rerun ==
    /\ phase = "done"
    /\ run < MaxRuns
    /\ run' = run + 1
    /\ prevRecords' = records
    /\ StartRun
    /\ UNCHANGED <<inputs, reportVars, dashVars>>

NextRun ==
    \/ Validate
    \/ \E k \in Keys : AudioMatch(k)
    \/ \E j \in InstructionIds : EmailMatch(j)
    \/ \E k \in Keys : Select(k)
    \/ \E k \in Keys : Analyze(k)
    \/ \E k \in Keys : WriteRecord(k)
    \/ Finish

Next == NextRun \/ Rerun

Spec == Init /\ [][Next]_vars

(***************************************************************************)
(* The email channel on its own: one instruction over the whole rubric     *)
(* (every criterion satisfied or not, quantity and price present, absent   *)
(* or CMP) against a book of two orders of one client, no calls.           *)
(***************************************************************************)
EmailOrder1Domain ==
    [id : {OrderId1}, client : {ClientA}, symbol : {"BLUEJET"},
     side : {"BUY"}, qty : {40, 100, 1731}, price : {500}, ts : {600, 660},
     status : {"complete"}]

EmailOrder2Domain ==
    [id : {OrderId2}, client : {ClientA}, symbol : {"BLUEJET"},
     side : {"BUY"}, qty : {0, 60}, price : {500, 1850},
     ts : {600, 750, 870}, status : {"complete", "cancelled"}]

EmailOrderBooks == {{a, b} : a \in EmailOrder1Domain, b \in EmailOrder2Domain}

EmailInstructionDomain ==
    [id : {1}, client : {"WM00542", "NWM"},
     symbol : {"blue jet healthcare", "Canara Bank"},
     side : {"BUY", "SELL"}, qty : {100, 40, 1731271, ABSENT},
     price : {500, CMP, ABSENT}, ts : {600}]

InitEmail ==
    /\ orders \in EmailOrderBooks
    /\ calls = {}
    /\ instrs \in {{i} : i \in EmailInstructionDomain}
    /\ baseline = [tight |-> 1000, fallback |-> 750]
    /\ InitRun
    /\ ReportIdle
    /\ DashboardIdle

SpecEmail == InitEmail /\ [][NextRun]_vars

(***************************************************************************)
(* The report pipeline: Step 8 (OMS surveillance) and Step 9 (required     *)
(* columns of the Final Excel), which may run in either order and Step 9   *)
(* more than once.                                                         *)
(***************************************************************************)
MaxStepRuns == 2

\* the ids of the orders the OMS surveillance matched, as Step 8 writes them
OmsMatchedIds == {[n |-> n, form |-> "int"] : n \in omsMatched}

\* Step 8 marks the rows of the matched orders in a status column
apply_oms_matches(status) ==
    [id \in DOMAIN status |->
        IF normalize_order_id(id) \in OmsMatchedIds
        THEN "OMS_MATCH" ELSE status[id]]

\* Step 8: the matches go to the Final Excel when it exists and to the
\* analysis file otherwise; the intermediate JSON file is saved or not
Step8 ==
    /\ step8Runs < MaxStepRuns
    /\ step8Runs' = step8Runs + 1
    /\ IF finalExists
       THEN /\ finalStatus' = apply_oms_matches(finalStatus)
            /\ UNCHANGED analysisStatus
       ELSE /\ analysisStatus' = apply_oms_matches(analysisStatus)
            /\ UNCHANGED finalStatus
    /\ \E saved \in BOOLEAN :
           omsJson' = IF saved THEN omsJson \cup OmsMatchedIds ELSE omsJson
    /\ UNCHANGED <<engineVars, dashVars, omsMatched, finalExists,
                   step9Runs, step9Error>>

\* the OMS matches Step 9 finds in the intermediate file and the Final Excel
existing_oms_matches ==
    omsJson
    \cup {normalize_order_id(id) : id \in
             {x \in OrderRows : finalExists /\ finalStatus[x] = "OMS_MATCH"}}

\* the status column before the fix: default, then the existing matches
required_columns_status_before_fix(source, existing) ==
    [id \in DOMAIN source |->
        IF normalize_order_id(id) \in existing
        THEN "OMS_MATCH" ELSE "No Email Match"]

\* the status column Step 9 writes: the OMS matches of the source file are
\* collected, every row gets the default, the existing matches are applied
\* and the collected ones restored
required_columns_status(source, existing) ==
    LET existing_oms_order_ids ==
            {normalize_order_id(id) : id \in
                {x \in DOMAIN source : source[x] = "OMS_MATCH"}}
        defaulted == [id \in DOMAIN source |-> "No Email Match"]
        applied ==
            [id \in DOMAIN source |->
                IF normalize_order_id(id) \in existing
                THEN "OMS_MATCH" ELSE defaulted[id]]
    IN  [id \in DOMAIN source |->
            IF normalize_order_id(id) \in existing_oms_order_ids
            THEN "OMS_MATCH" ELSE applied[id]]

\* Step 9 reads the analysis file and writes the Final Excel
\* the rows whose identifier Step 9 normalizes: the OMS_MATCH rows of the
\* source file for the preservation, every row when matches are applied or
\* restored
NormalizedRows(source, existing) ==
    {x \in DOMAIN source : source[x] = "OMS_MATCH"}
    \cup (IF existing # {} \/ \E x \in DOMAIN source : source[x] = "OMS_MATCH"
          THEN DOMAIN source ELSE {})

\* Step 9 reads the analysis file and writes the Final Excel; an exception
\* of the normalization ends the step before anything is written
Step9 ==
    /\ step9Runs < MaxStepRuns
    /\ step9Runs' = step9Runs + 1
    /\ IF \E x \in NormalizedRows(analysisStatus, existing_oms_matches) :
              normalize_order_id(x) = Raised
       THEN /\ step9Error' = TRUE
            /\ UNCHANGED <<finalStatus, finalExists>>
       ELSE /\ finalStatus' =
                   required_columns_status(analysisStatus,
                                           existing_oms_matches)
            /\ finalExists' = TRUE
            /\ UNCHANGED step9Error
    /\ UNCHANGED <<engineVars, dashVars, omsMatched, analysisStatus,
                   omsJson, step8Runs>>

\* the day's orders, the OMS outcome and the files found at the start
InitReport ==
    /\ orders \in OrderBooks
    /\ calls = {}
    /\ instrs = {}
    /\ baseline = [tight |-> 1000, fallback |-> 750]
    /\ InitRun
    /\ omsMatched \in SUBSET {1, 2}
    /\ finalExists \in BOOLEAN
    /\ finalStatus =
           [id \in OrderRows |->
               IF finalExists THEN "No Email Match" ELSE "none"]
    /\ analysisStatus = [id \in OrderRows |-> "none"]
    /\ omsJson = {}
    /\ step8Runs = 0
    /\ step9Runs = 0
    /\ step9Error = FALSE
    /\ DashboardIdle

NextReport == Step8 \/ Step9

SpecReport == InitReport /\ [][NextReport]_vars

(***************************************************************************)
(* The report pipeline over order files whose identifier column holds      *)
(* every form of identifier.                                               *)
(***************************************************************************)
IdForms == {"int", "float", "exp", "huge", "text", "text.0"}

IdOrderBooks ==
    {{[id |-> [n |-> 1, form |-> f], client |-> ClientA,
       symbol |-> "BLUEJET", side |-> "BUY", qty |-> 40, price |-> 500,
       ts |-> 600, status |-> "complete"],
      [id |-> [n |-> 2, form |-> g], client |-> ClientA,
       symbol |-> "BLUEJET", side |-> "BUY", qty |-> 60, price |-> 500,
       ts |-> 600, status |-> "complete"]} : f \in IdForms, g \in IdForms}

InitIds ==
    /\ orders \in IdOrderBooks
    /\ calls = {}
    /\ instrs = {}
    /\ baseline = [tight |-> 1000, fallback |-> 750]
    /\ InitRun
    /\ omsMatched \in SUBSET {1, 2}
    /\ finalExists \in BOOLEAN
    /\ finalStatus =
           [id \in OrderRows |->
               IF finalExists THEN "No Email Match" ELSE "none"]
    /\ analysisStatus = [id \in OrderRows |-> "none"]
    /\ omsJson = {}
    /\ step8Runs = 0
    /\ step9Runs = 0
    /\ step9Error = FALSE
    /\ DashboardIdle

SpecIds == InitIds /\ [][NextReport]_vars

(***************************************************************************)
(* The dashboard (App.tsx) and its surveillance runner                     *)
(* (SurveillanceRunner.tsx).                                               *)
(***************************************************************************)
\* the engine and the report files as they are not in use
EngineIdle ==
    /\ orders = {}
    /\ calls = {}
    /\ instrs = {}
    /\ baseline = [tight |-> 1000, fallback |-> 750]
    /\ InitRun
    /\ ReportIdle

\* setCurrentView: the SurveillanceRunner is mounted while the view is
\* 'process'; a new instance starts with isRunning false, and the state of
\* an unmounted instance is gone
setCurrentView(view) ==
    /\ currentView' = view
    /\ IF view = "process" /\ currentView # "process"
       THEN /\ mounts' = mounts + 1
            /\ isRunning' = FALSE
       ELSE IF view # "process" /\ currentView = "process"
       THEN /\ isRunning' = FALSE
            /\ UNCHANGED mounts
       ELSE UNCHANGED <<mounts, isRunning>>

\* is the runner instance that started job j still mounted?
OwnerMounted(j) == currentView = "process" /\ jobOwner[j] = mounts

\* Sidebar: Run Surveillance / Monitor Process
handleRunSurveillance ==
    /\ currentView # "process" => mounts < MaxMounts
    /\ setCurrentView("process")
    /\ UNCHANGED <<engineVars, reportVars, uploadVars, metricVars, posting, jobStatus,
                   jobOwner, polls, statusRead, onCompleteCalls>>

\* Sidebar: Upload Files
handleUploadFiles ==
    /\ setCurrentView("upload")
    /\ UNCHANGED <<engineVars, reportVars, uploadVars, metricVars, posting, jobStatus,
                   jobOwner, polls, statusRead, onCompleteCalls>>

\* onCancel of the runner (the Cancel button is rendered while isRunning)
\* and of the upload view, onBack of the drill-down view
handleBackToDashboard ==
    /\ \/ currentView = "process" /\ isRunning
       \/ currentView \in {"upload", "drilldown"}
    /\ setCurrentView("dashboard")
    /\ UNCHANGED <<engineVars, reportVars, uploadVars, metricVars, posting, jobStatus,
                   jobOwner, polls, statusRead, onCompleteCalls>>

\* Sidebar: a month is selected; the date filter is reset
handleMonthSelect(month) ==
    /\ selectedMonth' = month
    /\ setCurrentView("dashboard")
    /\ dateFilter' = NoFilter
    /\ UNCHANGED <<engineVars, reportVars, uploadVars, realData, backendOrders, fetches,
                   posting, jobStatus, jobOwner, polls, statusRead,
                   onCompleteCalls>>

\* startSurveillance up to the await of the POST: the button is disabled
\* while isRunning
startSurveillance ==
    /\ currentView = "process"
    /\ ~isRunning
    /\ Cardinality({j \in Jobs : jobStatus[j] # "none"})
           + Cardinality(posting) < MaxJobs
    /\ isRunning' = TRUE
    /\ posting' = posting \cup {mounts}
    /\ UNCHANGED <<engineVars, reportVars, uploadVars, metricVars, currentView, mounts,
                   jobStatus, jobOwner, polls, statusRead, onCompleteCalls>>

\* startSurveillance after the await: the backend created the job and the
\* first poll is sent, or the request failed
startSurveillanceResponse(inst, ok) ==
    /\ inst \in posting
    /\ posting' = posting \ {inst}
    /\ IF ok
       THEN LET jobId == CHOOSE j \in Jobs :
                            /\ jobStatus[j] = "none"
                            /\ \A k \in Jobs : jobStatus[k] = "none" => j <= k
            IN  /\ jobStatus' = [jobStatus EXCEPT ![jobId] = "running"]
                /\ jobOwner' = [jobOwner EXCEPT ![jobId] = inst]
                /\ polls' = polls \cup {[job |-> jobId, st |-> "fetch"]}
                /\ UNCHANGED isRunning
       ELSE /\ isRunning' =
                   IF currentView = "process" /\ inst = mounts
                   THEN FALSE ELSE isRunning
            /\ UNCHANGED <<jobStatus, jobOwner, polls>>
    /\ UNCHANGED <<engineVars, reportVars, uploadVars, metricVars, currentView, mounts,
                   statusRead, onCompleteCalls>>

\* the backend finishes a job
JobEnds(j, status) ==
    /\ jobStatus[j] = "running"
    /\ jobStatus' = [jobStatus EXCEPT ![j] = status]
    /\ UNCHANGED <<engineVars, reportVars, uploadVars, metricVars, currentView, mounts,
                   isRunning, posting, jobOwner, polls, statusRead,
                   onCompleteCalls>>

\* onComplete is called for every final status
poll_complete_on_failed(j, response) ==
    /\ [job |-> j, st |-> "fetch"] \in polls
    /\ IF response = "notok"
       THEN /\ polls' = polls \ {[job |-> j, st |-> "fetch"]}
            /\ statusRead' = [statusRead EXCEPT ![j] = "notok"]
            /\ UNCHANGED <<currentView, mounts, isRunning, onCompleteCalls,
                           fetches>>
       ELSE IF response = "throw"
       THEN /\ polls' = polls \ {[job |-> j, st |-> "fetch"]}
            /\ statusRead' = [statusRead EXCEPT ![j] = "throw"]
            /\ isRunning' = IF OwnerMounted(j) THEN FALSE ELSE isRunning
            /\ UNCHANGED <<currentView, mounts, onCompleteCalls, fetches>>
       ELSE /\ statusRead' = [statusRead EXCEPT ![j] = jobStatus[j]]
            /\ IF jobStatus[j] = "completed"
               THEN \* setIsRunning(false); onComplete(status):
                    \* handleSurveillanceComplete
                    /\ polls' = polls \ {[job |-> j, st |-> "fetch"]}
                    /\ onCompleteCalls' =
                           [onCompleteCalls EXCEPT ![j] = @ + 1]
                    /\ fetches' = fetches \cup {RealFetch}
                    /\ setCurrentView("dashboard")
               ELSE IF jobStatus[j] = "failed"
               THEN /\ polls' = polls \ {[job |-> j, st |-> "fetch"]}
                    /\ onCompleteCalls' =
                           [onCompleteCalls EXCEPT ![j] = @ + 1]
                    /\ fetches' = fetches \cup {RealFetch}
                    /\ setCurrentView("dashboard")
               ELSE \* setTimeout(poll, 2000)
                    /\ polls' = (polls \ {[job |-> j, st |-> "fetch"]})
                                    \cup {[job |-> j, st |-> "timer"]}
                    /\ UNCHANGED <<currentView, mounts, isRunning,
                                   onCompleteCalls, fetches>>
    /\ UNCHANGED <<engineVars, reportVars, uploadVars, selectedMonth, dateFilter,
                   realData, backendOrders, posting, jobStatus, jobOwner>>

\* the response of a status request arrives in poll(): "ok" with the job's
\* status, "notok" (response.ok false) or "throw" (fetch or json rejects)
poll(j, response) ==
    /\ [job |-> j, st |-> "fetch"] \in polls
    /\ IF response = "notok"
       THEN /\ polls' = polls \ {[job |-> j, st |-> "fetch"]}
            /\ statusRead' = [statusRead EXCEPT ![j] = "notok"]
            /\ UNCHANGED <<currentView, mounts, isRunning, onCompleteCalls,
                           fetches>>
       ELSE IF response = "throw"
       THEN /\ polls' = polls \ {[job |-> j, st |-> "fetch"]}
            /\ statusRead' = [statusRead EXCEPT ![j] = "throw"]
            /\ isRunning' = IF OwnerMounted(j) THEN FALSE ELSE isRunning
            /\ UNCHANGED <<currentView, mounts, onCompleteCalls, fetches>>
       ELSE /\ statusRead' = [statusRead EXCEPT ![j] = jobStatus[j]]
            /\ IF jobStatus[j] = "completed"
               THEN \* setIsRunning(false); onComplete(status):
                    \* handleSurveillanceComplete
                    /\ polls' = polls \ {[job |-> j, st |-> "fetch"]}
                    /\ onCompleteCalls' =
                           [onCompleteCalls EXCEPT ![j] = @ + 1]
                    /\ fetches' = fetches \cup {RealFetch}
                    /\ setCurrentView("dashboard")
               ELSE IF jobStatus[j] = "failed"
               THEN /\ polls' = polls \ {[job |-> j, st |-> "fetch"]}
                    /\ isRunning' =
                           IF OwnerMounted(j) THEN FALSE ELSE isRunning
                    /\ UNCHANGED <<currentView, mounts, onCompleteCalls,
                                   fetches>>
               ELSE \* setTimeout(poll, 2000)
                    /\ polls' = (polls \ {[job |-> j, st |-> "fetch"]})
                                    \cup {[job |-> j, st |-> "timer"]}
                    /\ UNCHANGED <<currentView, mounts, isRunning,
                                   onCompleteCalls, fetches>>
    /\ UNCHANGED <<engineVars, reportVars, uploadVars, selectedMonth, dateFilter,
                   realData, backendOrders, posting, jobStatus, jobOwner>>

\* the timer of setTimeout(poll, 2000) fires: the next status request
pollTimer(j) ==
    /\ [job |-> j, st |-> "timer"] \in polls
    /\ polls' = (polls \ {[job |-> j, st |-> "timer"]})
                    \cup {[job |-> j, st |-> "fetch"]}
    /\ UNCHANGED <<engineVars, reportVars, uploadVars, metricVars, currentView, mounts,
                   isRunning, posting, jobStatus, jobOwner, statusRead,
                   onCompleteCalls>>

InitRunner ==
    /\ EngineIdle
    /\ DashboardIdle

NextRunner ==
    \/ handleRunSurveillance
    \/ handleUploadFiles
    \/ handleBackToDashboard
    \/ \E month \in Months : handleMonthSelect(month)
    \/ startSurveillance
    \/ \E inst \in 1..MaxMounts : \E ok \in BOOLEAN :
           startSurveillanceResponse(inst, ok)
    \/ \E j \in Jobs : \E status \in {"completed", "failed"} :
           JobEnds(j, status)
    \/ \E j \in Jobs : \E response \in {"ok", "notok", "throw"} :
           poll(j, response)
    \/ \E j \in Jobs : pollTimer(j)

SpecRunner == InitRunner /\ [][NextRunner]_vars

(***************************************************************************)
(* The dashboard metrics (App.tsx: fetchRealData, fetchFilteredData) and   *)
(* the date filter (DateFilter).                                           *)
(***************************************************************************)
\* rows of the final reports the backend serves: completed orders with the
\* audio_mapped column and the 'Email-Order Match Status' column
BackendRows ==
    {[id |-> 1, month |-> "August", day |-> 1, audio |-> TRUE,
      status |-> "Matched"],
     [id |-> 2, month |-> "August", day |-> 2, audio |-> FALSE,
      status |-> "No Email Match"],
     [id |-> 3, month |-> "September", day |-> 1, audio |-> FALSE,
      status |-> "OMS_MATCH"],
     [id |-> 4, month |-> "September", day |-> 2, audio |-> TRUE,
      status |-> "No Email Match"]}

\* the date ranges the filter can apply (days of the month)
DateRanges ==
    {[startDate |-> 1, endDate |-> 1], [startDate |-> 2, endDate |-> 2]}

\* does the row fall under the metric?
InMetric(metric, row) ==
    IF metric = "totalTrades" THEN TRUE
    ELSE IF metric = "audioMatches" THEN row.audio
    ELSE IF metric = "emailMatches" THEN row.status = "Matched"
    ELSE IF metric = "omsMatches" THEN row.status = "OMS_MATCH"
    ELSE IF metric = "unmatchedOrders"
    THEN ~row.audio /\ row.status # "Matched"
    ELSE FALSE

\* surveillanceDataService.getOrdersForMetric: the rows of the month, inside
\* the date range when one is given, that fall under the metric
getOrdersForMetric(metric, month, startDate, endDate) ==
    {row \in backendOrders :
        /\ row.month = month
        /\ startDate # 0 => row.day >= startDate
        /\ endDate # 0 => row.day <= endDate
        /\ InMetric(metric, row)}

\* the metrics fetchRealData stores for a month: for August the unmatched
\* count is computed from the other counts, for the later months fetched
RealMetrics(month) ==
    LET n(metric) == Cardinality(getOrdersForMetric(metric, month, 0, 0))
    IN  [totalTrades |-> n("totalTrades"),
         emailMatches |-> n("emailMatches"),
         omsMatches |-> n("omsMatches"),
         audioMatches |-> n("audioMatches"),
         unmatchedOrders |->
             IF month = "August"
             THEN n("totalTrades") - n("emailMatches") - n("audioMatches")
                      - n("omsMatches")
             ELSE n("unmatchedOrders")]

\* the metrics fetchFilteredData stores for the selected month
FilteredMetrics(month, startDate, endDate) ==
    LET n(metric) ==
            Cardinality(getOrdersForMetric(metric, month, startDate, endDate))
    IN  [totalTrades |-> n("totalTrades"),
         emailMatches |-> n("emailMatches"),
         omsMatches |-> n("omsMatches"),
         audioMatches |-> n("audioMatches"),
         unmatchedOrders |-> n("unmatchedOrders")]

\* the effect on [dateFilter.startDate, dateFilter.endDate, selectedMonth]:
\* fetchFilteredData returns when no filter is applied, else it sends the
\* requests of the selected month
fetchFilteredData(month, filter) ==
    IF filter = NoFilter THEN {}
    ELSE {[kind |-> "filtered", month |-> month,
           startDate |-> filter.startDate, endDate |-> filter.endDate]}

\* DateFilter: Apply
handleApplyFilter(range) ==
    /\ currentView \in {"dashboard", "drilldown"}
    /\ range # dateFilter
    /\ dateFilter' = range
    /\ fetches' = fetches \cup fetchFilteredData(selectedMonth, range)
    /\ UNCHANGED <<engineVars, reportVars, uploadVars, runnerVars, currentView,
                   selectedMonth, realData, backendOrders>>

\* DateFilter: the clear button, shown while a filter is active
handleClearFilter ==
    /\ currentView \in {"dashboard", "drilldown"}
    /\ dateFilter # NoFilter
    /\ dateFilter' = NoFilter
    /\ fetches' = fetches \cup fetchFilteredData(selectedMonth, NoFilter)
    /\ UNCHANGED <<engineVars, reportVars, uploadVars, runnerVars, currentView,
                   selectedMonth, realData, backendOrders>>

\* the responses of fetchRealData arrive: setRealData for every month
fetchRealDataResponse ==
    /\ RealFetch \in fetches
    /\ fetches' = fetches \ {RealFetch}
    /\ realData' = [m \in Months |-> RealMetrics(m)]
    /\ UNCHANGED <<engineVars, reportVars, uploadVars, runnerVars, currentView,
                   selectedMonth, dateFilter, backendOrders>>

\* the responses of fetchFilteredData arrive: setRealData for the month that
\* was selected when the requests were sent
fetchFilteredDataResponse(f) ==
    /\ f \in fetches
    /\ f.kind = "filtered"
    /\ fetches' = fetches \ {f}
    /\ realData' =
           [realData EXCEPT
               ![f.month] = FilteredMetrics(f.month, f.startDate, f.endDate)]
    /\ UNCHANGED <<engineVars, reportVars, uploadVars, runnerVars, currentView,
                   selectedMonth, dateFilter, backendOrders>>

\* the App is mounted: fetchRealData is sent, no filter is applied
InitMetrics ==
    /\ EngineIdle
    /\ UploadIdle
    /\ currentView = "dashboard"
    /\ selectedMonth = "September"
    /\ dateFilter = NoFilter
    /\ realData = [m \in Months |-> EmptyMetrics]
    /\ backendOrders \in SUBSET BackendRows
    /\ fetches = {RealFetch}
    /\ mounts = 0
    /\ isRunning = FALSE
    /\ posting = {}
    /\ jobStatus = [j \in Jobs |-> "none"]
    /\ jobOwner = [j \in Jobs |-> 0]
    /\ polls = {}
    /\ statusRead = [j \in Jobs |-> "none"]
    /\ onCompleteCalls = [j \in Jobs |-> 0]

NextMetrics ==
    \/ \E month \in Months : handleMonthSelect(month)
    \/ \E range \in DateRanges : handleApplyFilter(range)
    \/ handleClearFilter
    \/ fetchRealDataResponse
    \/ \E f \in fetches : fetchFilteredDataResponse(f)

SpecMetrics == InitMetrics /\ [][NextMetrics]_vars

(***************************************************************************)
(* The upload view (FileUpload.tsx).                                       *)
(***************************************************************************)
MaxFiles == 2     \* files in one selection
MaxUploads == 2   \* uploads started in one mounting of the view

MB == 1024 * 1024

\* FILE_TYPES: accepted extensions (without the dot) and maxSize in MB
FILE_TYPES ==
    [audio |-> [acceptedTypes |-> {"wav", "mp3", "m4a", "flac", "729"},
                maxSize |-> 100],
     orders |-> [acceptedTypes |-> {"csv"}, maxSize |-> 50],
     ucc |-> [acceptedTypes |-> {"xlsx", "xls"}, maxSize |-> 20]]

FileTypeIds == {"audio", "orders", "ucc"}

\* file names, as the sequence of their dot-separated parts
FileNames ==
    {<<"call", "WAV">>, <<"orders", "csv">>, <<"wav">>}

\* file sizes in bytes: at the limit of 50 MB, one byte above it, and one
\* byte above the limit of 100 MB
FileSizes == {50 * MB, 50 * MB + 1, 100 * MB + 1}

Files == [name : FileNames, size : FileSizes]

\* String.prototype.toLowerCase on the parts that occur
toLowerCase(part) ==
    IF part = "WAV" THEN "wav" ELSE part

\* file.name.split('.').pop()?.toLowerCase(): the last part, which is the
\* whole name when the name has no dot
fileExtension(file) == toLowerCase(file.name[Len(file.name)])

\* validateFile: the error of the file under the file type, or "none"
validateFile(file, fileType) ==
    IF file.size > FILE_TYPES[fileType].maxSize * MB THEN "size"
    ELSE IF fileExtension(file) \notin FILE_TYPES[fileType].acceptedTypes
    THEN "type"
    ELSE "none"

\* the first validation error of the selection, "none" when every file passes
RECURSIVE FirstError(_, _, _)
FirstError(files, fileType, i) ==
    IF i > Len(files) THEN "none"
    ELSE IF validateFile(files[i], fileType) # "none"
    THEN validateFile(files[i], fileType)
    ELSE FirstError(files, fileType, i + 1)

\* uploadFile for every file of the list: the entries added to uploadedFiles
uploadFile(files, fileType) ==
    {[id |-> uploadCount + i, file |-> files[i], fileType |-> fileType,
      status |-> "uploading"] : i \in DOMAIN files}

\* a file type card is clicked
setSelectedFileType(fileType) ==
    /\ selectedFileType' = fileType
    /\ UNCHANGED <<engineVars, reportVars, runnerVars, metricVars,
                   currentView, selection, uploadedFiles, uploadError,
                   uploadCount>>

\* handleFileSelect uploading the files that pass when another file fails
handleFileSelect_upload_valid_files(files) ==
    /\ selectedFileType # "none"
    /\ uploadCount + Len(files) <= MaxUploads
    /\ selection' = files
    /\ uploadError' = FirstError(files, selectedFileType, 1)
    /\ LET validFiles ==
               SelectSeq(files,
                   LAMBDA f : validateFile(f, selectedFileType) = "none")
       IN  /\ uploadedFiles' =
                  uploadedFiles \cup uploadFile(validFiles, selectedFileType)
           /\ uploadCount' = uploadCount + Len(validFiles)
    /\ UNCHANGED <<engineVars, reportVars, runnerVars, metricVars,
                   currentView, selectedFileType>>

\* handleFileSelect (change of the file input, or a drop): the files are
\* validated in order, the first error is shown and ends the handler;
\* otherwise every file is uploaded
handleFileSelect(files) ==
    /\ selectedFileType # "none"
    /\ uploadCount + Len(files) <= MaxUploads
    /\ selection' = files
    /\ uploadError' = FirstError(files, selectedFileType, 1)
    /\ IF FirstError(files, selectedFileType, 1) # "none"
       THEN UNCHANGED <<uploadedFiles, uploadCount>>
       ELSE /\ uploadedFiles' =
                   uploadedFiles \cup uploadFile(files, selectedFileType)
            /\ uploadCount' = uploadCount + Len(files)
    /\ UNCHANGED <<engineVars, reportVars, runnerVars, metricVars,
                   currentView, selectedFileType>>

\* the POST /api/upload/files of an entry is answered
uploadResponse(u, ok) ==
    /\ u \in uploadedFiles
    /\ u.status = "uploading"
    /\ uploadedFiles' =
           (uploadedFiles \ {u}) \cup
               {[u EXCEPT !.status = IF ok THEN "completed" ELSE "failed"]}
    /\ UNCHANGED <<engineVars, reportVars, runnerVars, metricVars,
                   currentView, selectedFileType, selection, uploadError,
                   uploadCount>>

\* the remove button of an entry
removeFile(u) ==
    /\ u \in uploadedFiles
    /\ uploadedFiles' = uploadedFiles \ {u}
    /\ UNCHANGED <<engineVars, reportVars, runnerVars, metricVars,
                   currentView, selectedFileType, selection, uploadError,
                   uploadCount>>

\* the FileLists a change or drop event can carry
Selections ==
    UNION {[1..n -> Files] : n \in 1..MaxFiles}

\* the upload view has just been opened
InitUpload ==
    /\ EngineIdle
    /\ UploadIdle
    /\ currentView = "upload"
    /\ selectedMonth = "September"
    /\ dateFilter = NoFilter
    /\ realData = [m \in Months |-> EmptyMetrics]
    /\ backendOrders = {}
    /\ fetches = {}
    /\ mounts = 0
    /\ isRunning = FALSE
    /\ posting = {}
    /\ jobStatus = [j \in Jobs |-> "none"]
    /\ jobOwner = [j \in Jobs |-> 0]
    /\ polls = {}
    /\ statusRead = [j \in Jobs |-> "none"]
    /\ onCompleteCalls = [j \in Jobs |-> 0]

NextUpload ==
    \/ \E fileType \in FileTypeIds : setSelectedFileType(fileType)
    \/ \E files \in Selections : handleFileSelect(files)
    \/ \E u \in uploadedFiles, ok \in BOOLEAN : uploadResponse(u, ok)
    \/ \E u \in uploadedFiles : removeFile(u)

SpecUpload == InitUpload /\ [][NextUpload]_vars

(***************************************************************************)
(* Properties.                                                             *)
(***************************************************************************)
RecordsOf(n) == {r \in records : r.order = [n |-> n, form |-> "int"]}

StatusOf(r) == (CHOOSE o \in orders : o.id.n = r.order.n).status

\* C1: after any completed run every order of the input order set has
\* exactly one ReconciliationRecord, found under its normalized identifier
\* (the integer text), and there are no other records
C1_Coverage ==
    phase = "done" =>
        /\ \A o \in orders : Cardinality(RecordsOf(o.id.n)) = 1
        /\ Cardinality(records) = Cardinality(orders)

\* a completed run in which one order is referenced by a call and by the
\* candidates of two instructions
C1_Witness ==
    /\ phase = "done"
    /\ \E k \in Keys :
          /\ audio[k].channel = "audio"
          /\ Cardinality(EmailCandidatesOf(k, emails)) >= 2
          /\ Cardinality(RecordsOf(k.n)) = 1

\* C2: the confidence of every candidate and of every record lies in
\* [0, 100] (0 .. 1000 tenths of a percent)
C2_ScoreBounds ==
    /\ \A n \in DOMAIN emails :
          emails[n].confidence >= 0 /\ emails[n].confidence <= FullConfidence
    /\ \A k \in Keys :
          audio[k].confidence >= 0 /\ audio[k].confidence <= FullConfidence
    /\ \A r \in records :
          r.confidence >= 0 /\ r.confidence <= FullConfidence

C5_Precedence ==
    \A k \in Keys :
        LET a == audio[k]
            e == BestEmail(k, emails)
        IN  (pc[k] # "matching" /\ a.channel = "audio" /\ e.channel = "email")
            => /\ a.confidence > e.confidence => chosen[k] = a
               /\ a.confidence <= e.confidence => chosen[k] = e
               /\ \A r \in records :
                     r.order = k =>
                        /\ r.channel = chosen[k].channel
                        /\ r.confidence = chosen[k].confidence
                        /\ r.evidence = chosen[k].evidence
                        /\ r.channel = "audio" =>
                              \A d \in r.discrepancies : d.kind = "status"

\* an order whose audio and email candidates are equally confident has its
\* record written from the email candidate
C5_Witness ==
    \E k \in Keys :
        /\ pc[k] = "written"
        /\ audio[k].channel = "audio"
        /\ BestEmail(k, emails).channel = "email"
        /\ audio[k].confidence = BestEmail(k, emails).confidence
        /\ \E r \in records : r.order = k /\ r.channel = "email"

\* the final matches (channel, evidence) whose orders include order key k
ChosenMatchesOf(k) ==
    {<<r.channel, r.evidence>> :
        r \in {x \in records : x.channel # "none" /\ k \in x.group}}

\* C6: in the output of a run each order is part of the chosen match of at
\* most one piece of evidence, the one its own record names
C6_OneChosenMatch ==
    phase = "done" =>
        \A k \in Keys :
            /\ Cardinality(ChosenMatchesOf(k)) <= 1
            /\ \A r \in records :
                  (r.order = k /\ r.channel # "none") =>
                      ChosenMatchesOf(k) = {<<r.channel, r.evidence>>}

SingleMatches ==
    {c \in {emails[n] : n \in DOMAIN emails} :
        c.matchType # "split_execution"}

SameClientSideSymbol(i) ==
    {o \in orders : /\ normalize_client_code(i.client) = o.client
                    /\ i.side = o.side
                    /\ normalize_symbol(i.symbol) = o.symbol}

TotalQuantity(G) ==
    SumOver({o.id.n : o \in G},
            [n \in {o.id.n : o \in G} |-> (CHOOSE o \in G : o.id.n = n).qty])

TotalValue(G) ==
    SumOver({o.id.n : o \in G},
            [n \in {o.id.n : o \in G} |->
                LET o == CHOOSE x \in G : x.id.n = n IN o.qty * o.price])

\* a group of several orders sums to the instructed quantity and its
\* weighted average price is the instructed price
GroupFulfils(i) ==
    /\ Cardinality(SameClientSideSymbol(i)) >= 2
    /\ i.qty # ABSENT
    /\ i.price \notin {ABSENT, CMP}
    /\ TotalQuantity(SameClientSideSymbol(i)) = i.qty
    /\ TotalValue(SameClientSideSymbol(i)) = i.price * i.qty

\* the instruction has exactly one candidate, a split_execution over the
\* whole group, with the confidence of the aggregate: every criterion of
\* the rubric is met, time proximity as for the closest order of the group
SplitEmitted(i) ==
    /\ Cardinality({n \in DOMAIN emails : emails[n].evidence = i.id}) = 1
    /\ \A n \in DOMAIN emails :
          emails[n].evidence = i.id =>
             /\ emails[n].matchType = "split_execution"
             /\ emails[n].orders =
                    {[n |-> o.id.n, form |-> "int"] :
                        o \in SameClientSideSymbol(i)}
             /\ \E o \in SameClientSideSymbol(i) :
                   emails[n].raw =
                       ClientPoints + SidePoints + SymbolPoints
                       + QuantityPoints + PricePoints
                       + TimeProximityPoints(TimeDistance(i, o))
             /\ emails[n].confidence * RubricTotal
                    >= emails[n].raw * FullConfidence - RubricTotal \div 2
             /\ emails[n].confidence >= 950

\* C9 as stated: whenever a group sums to the instructed quantity at the
\* instructed average price, exactly one split_execution candidate covers
\* the group, with the confidence of the aggregate (at least 95 for
\* 100 at 500 against 40 at 500 and 60 at 500)
C9_SplitExecution ==
    \A i \in instrs :
        (dispositions[i.id].status # "pending" /\ GroupFulfils(i))
        => SplitEmitted(i)

\* C9 amended: the same when, in addition, no single order reaches an
\* acceptable score (the 180 points of a 100% match) on its own
C9_SplitExecutionNoSingle ==
    \A i \in instrs :
        (/\ dispositions[i.id].status # "pending"
         /\ GroupFulfils(i)
         /\ \A o \in orders : calculate_match_score(i, o) < AcceptableScore)
        => SplitEmitted(i)

\* 100 at 500 was executed as 40 at 500 and 60 at 500 and matched as a split
C9_Witness ==
    \E i \in instrs :
        /\ i.qty = 100 /\ i.price = 500
        /\ {o.qty : o \in SameClientSideSymbol(i)} = {40, 60}
        /\ GroupFulfils(i)
        /\ dispositions[i.id].status = "matched"
        /\ SplitEmitted(i)

\* C10: a CMP instruction scores against an order as if it named the
\* executed price, it is matched whenever an order of its client and side
\* exists, and a record chosen from it holds exactly one price note, which
\* is tagged informational
C10_CMPHandling ==
    \A i \in instrs :
        i.price = CMP =>
            /\ \A o \in orders :
                  calculate_match_score(i, o)
                      = calculate_match_score([i EXCEPT !.price = o.price], o)
            /\ (/\ dispositions[i.id].status # "pending"
                /\ \E o \in orders :
                      /\ normalize_client_code(i.client) = o.client
                      /\ i.side = o.side)
               => dispositions[i.id].status = "matched"
            /\ \A r \in records :
                  (r.channel = "email" /\ r.evidence = i.id) =>
                      /\ Cardinality({d \in r.discrepancies :
                                         d.kind = "price"}) = 1
                      /\ \A d \in r.discrepancies :
                            d.kind = "price" =>
                                /\ d.tag = "informational"
                                /\ d.instructed = CMP

\* a CMP instruction matched an order executed at 1850 and the record holds
\* the informational price note
C10_Witness ==
    \E i \in instrs :
        /\ i.price = CMP
        /\ \E r \in records :
              /\ r.channel = "email"
              /\ r.evidence = i.id
              /\ \E d \in r.discrepancies :
                    /\ d.kind = "price"
                    /\ d.tag = "informational"
                    /\ d.executed = 1850

\* the instruction a record was chosen from
InstructionOfRecord(r) == CHOOSE i \in instrs : i.id = r.evidence

\* the executed quantity of a record: the sum over the orders of its match
ExecutedOfRecord(r) ==
    TotalQuantity({o \in orders : [n |-> o.id.n, form |-> "int"] \in r.group})

HasTightCall(o) ==
    \E c \in calls :
        /\ c.client = o.client
        /\ c.start - 5 <= o.ts
        /\ o.ts <= c.end + 5

HasDailyCall(o) == \E c \in calls : c.client = o.client

\* C14: the audio matcher ends, for each order, in matched_in_time_range if
\* a call of its client lies within 5 minutes, else in
\* matched_daily_fallback if the client has a call that day, else in no
\* candidate; no fallback candidate is emitted or chosen for an order that
\* has a tight-window call
C14_AudioOutcome ==
    \A o \in orders :
        LET k == [n |-> o.id.n, form |-> "int"]
        IN  (k \in Keys /\ audio[k] # Pending) =>
               /\ audio[k].matchType =
                     IF HasTightCall(o) THEN "matched_in_time_range"
                     ELSE IF HasDailyCall(o) THEN "matched_daily_fallback"
                     ELSE "none"
               /\ (audio[k].matchType = "none") = (audio[k].channel = "none")
               /\ HasTightCall(o) =>
                     chosen[k].matchType # "matched_daily_fallback"

\* the three outcomes: an order in the time range and an order matched by
\* the fallback in one run, and an order without audio candidate
C14_Witness ==
    /\ \E k \in Keys : audio[k].matchType = "matched_in_time_range"
    /\ \E k \in Keys : /\ audio[k].matchType = "matched_daily_fallback"
                       /\ chosen[k].matchType = "matched_daily_fallback"
    /\ \A k \in Keys : audio[k] # Pending

\* C13: an order the OMS surveillance (Step 8) matched has the status
\* OMS_MATCH in the Final Excel once both Step 8 and Step 9 have run, in
\* whichever order they ran and however many times Step 9 ran; the default
\* 'No Email Match' never stands in its place.
C13_OmsMatchPreserved ==
    (step8Runs >= 1 /\ step9Runs >= 1)
        => /\ finalExists
           /\ \A o \in orders :
                  o.id.n \in omsMatched => finalStatus[o.id] = "OMS_MATCH"

\* Step 9 has run twice after Step 8 marked the analysis file only, and the
\* matched order still carries OMS_MATCH while another carries the default
C13_Witness ==
    /\ step9Runs = 2
    /\ step8Runs >= 1
    /\ omsJson = {}
    /\ \E o \in orders :
           /\ o.id.n \in omsMatched
           /\ analysisStatus[o.id] = "OMS_MATCH"
           /\ finalStatus[o.id] = "OMS_MATCH"
    /\ \E o \in orders : finalStatus[o.id] = "No Email Match"

\* a mandatory criterion of the rubric fails for the pair
MandatoryFails(i, o) ==
    \/ normalize_client_code(i.client) # o.client
    \/ i.side # o.side

\* C15: an instruction-order pair whose normalized client codes differ, or
\* whose sides differ, scores exactly 0 whatever the symbol, quantity, price
\* and time-proximity criteria would contribute, and no email candidate
\* pairs the two.
C15_MandatoryCriteria ==
    \A i \in instrs : \A o \in orders :
        MandatoryFails(i, o)
            => /\ calculate_match_score(i, o) = 0
               /\ \A x \in 1..Len(emails) :
                      emails[x].evidence = i.id => o.id.n \notin
                          {k.n : k \in emails[x].orders}

\* the side differs from an order that agrees on client, symbol, quantity,
\* price and time, and the instruction ends unmatched
C15_Witness ==
    \E i \in instrs : \E o \in orders :
        /\ i.side # o.side
        /\ normalize_client_code(i.client) = o.client
        /\ normalize_symbol(i.symbol) = o.symbol
        /\ i.qty = o.qty
        /\ i.price = o.price
        /\ i.ts = o.ts
        /\ dispositions[i.id].status = "unmatched"

\* a precedes b under (1) highest score, (2) closest time proximity,
\* (3) lowest order identifier
Precedes(i, a, b) ==
    \/ calculate_match_score(i, a) > calculate_match_score(i, b)
    \/ /\ calculate_match_score(i, a) = calculate_match_score(i, b)
       /\ Abs(a.ts - i.ts) < Abs(b.ts - i.ts)
    \/ /\ calculate_match_score(i, a) = calculate_match_score(i, b)
       /\ Abs(a.ts - i.ts) = Abs(b.ts - i.ts)
       /\ a.id.n < b.id.n

C17_WrittenOnce ==
    [][\A id \in OrderRows :
           finalExists => /\ finalExists'
                          /\ finalStatus'[id] = finalStatus[id]]_vars

\* C18: for each order the Discrepancy Analyzer starts its comparison only
\* after candidate generation (the audio candidate of the order and every
\* instruction's email outcome) and the selection of the winning candidate
\* for that same order have completed.
C18_AnalyzeAfterSelection ==
    \A o \in orders :
        LET k == [n |-> o.id.n, form |-> "int"]
        IN  (k \in Keys /\ (pc[k] \in {"analyzed", "written"} \/ discs[k] # {}))
                => /\ audio[k].channel # "pending"
                   /\ \A i \in instrs : dispositions[i.id].status # "pending"
                   /\ chosen[k] = ChooseCandidate(audio[k], BestEmail(k, emails))

\* the analyzer has compared the email winner of an order of a book with a
\* second order and found discrepancies
C18_Witness ==
    \E o \in orders :
        LET k == [n |-> o.id.n, form |-> "int"]
        IN  /\ k \in Keys
            /\ pc[k] = "analyzed"
            /\ chosen[k].channel = "email"
            /\ discs[k] # {}
            /\ audio[k].channel = "audio"

\* the part of the day's input that belongs to one client
OrdersOfClient(c) == {o \in orders : o.client = c}

CallsOfClient(c) == {x \in calls : normalize_client_code(x.client) = c}

InstructionsOfClient(c) ==
    {i \in instrs : normalize_client_code(i.client) = c}

RECURSIVE SequentialEmails(_, _)
\* the email candidates of a sequential pass over the instructions, by id
SequentialEmails(ins, ords) ==
    IF ins = {} THEN <<>>
    ELSE LET i == CHOOSE x \in ins : \A y \in ins : x.id <= y.id
             c == match_email_to_orders(
                      i, CHOOSE p \in Presentations(ords) : TRUE)
         IN  (IF c.channel = "email" THEN <<c>> ELSE <<>>)
                 \o SequentialEmails(ins \ {i}, ords)

\* the records of a sequential run over one client's input alone
SequentialRecords(c) ==
    {LET cand == ChooseCandidate(
                     audio_match(o, CallsOfClient(c), baseline),
                     BestEmail([n |-> o.id.n, form |-> "int"],
                               SequentialEmails(InstructionsOfClient(c),
                                                OrdersOfClient(c))))
     IN  ReconciliationRecord(
             o, cand,
             analyze_discrepancies(cand, o, OrdersOfClient(c),
                                   InstructionsOfClient(c)))
     : o \in OrdersOfClient(c)}

\* C19: whatever the order or interleaving in which the clients' matching
\* steps ran, the records of a completed run are those of a sequential run
\* made client by client on each client's own orders, calls and instructions:
\* no client's records depend on another client's input.
C19_ClientsIndependent ==
    phase = "done"
        => records = UNION {SequentialRecords(c) : c \in {o.client : o \in orders}}

\* a completed run over two clients, each with an order matched by an
\* instruction of its own
C19_Witness ==
    /\ phase = "done"
    /\ \E r1, r2 \in records :
           /\ r1.channel = "email"
           /\ r2.channel = "email"
           /\ r1.evidence # r2.evidence
           /\ \E o1, o2 \in orders :
                  /\ o1.id.n = r1.order.n
                  /\ o2.id.n = r2.order.n
                  /\ o1.client # o2.client

\* C20: when the input holds a structurally invalid record (an order without
\* identifier) the run is rejected before any matching step: no candidate of
\* either channel is generated, no instruction is processed, nothing is
\* selected or analyzed and no ReconciliationRecord is produced.
C20_InvalidInputRejected ==
    (\E o \in orders : o.id.form = "missing")
        => /\ phase \in {"ready", "rejected"}
           /\ emails = <<>>
           /\ records = {}
           /\ \A o \in orders :
                  /\ audio[normalize_order_id(o.id)].channel = "pending"
                  /\ chosen[normalize_order_id(o.id)].channel = "none"
                  /\ pc[normalize_order_id(o.id)] = "matching"
                  /\ discs[normalize_order_id(o.id)] = {}
           /\ \A i \in instrs : dispositions[i.id].status = "pending"

\* a book with one valid order matched by a call and an instruction, and one
\* order without identifier, has been rejected
C20_Witness ==
    /\ phase = "rejected"
    /\ calls # {}
    /\ \E o \in orders : o.id.form = "missing"
    /\ \E o \in orders : \E i \in instrs :
           o.id.form # "missing" /\ calculate_match_score(i, o) > 0

\* C21: order id normalization never raises: an identifier with an exponent
\* or a trailing ".0" is rendered as its integer string, an identifier that
\* cannot be parsed as a number is returned unchanged, and no step that
\* normalizes its rows ends in an exception.
C21_NormalizeNeverRaises ==
    /\ ~step9Error
    /\ \A id \in OrderRows :
           /\ normalize_order_id(id).form # "OverflowError"
           /\ id.form \in {"float", "exp"}
                  => normalize_order_id(id) = [n |-> id.n, form |-> "int"]
           /\ id.form \in {"text", "text.0"} => normalize_order_id(id) = id

\* C22: whenever an order whose execution status is cancelled or rejected
\* has a chosen evidence match, its record carries a status discrepancy
\* flagged review, whatever the confidence of the match, a perfect score
\* included.
C22_StatusFlaggedReview ==
    \A r \in records : \A o \in orders :
        (/\ r.order.n = o.id.n
         /\ o.status \in {"cancelled", "rejected"}
         /\ r.channel \in {"audio", "email"})
            => \E d \in r.discrepancies : d.kind = "status" /\ d.tag = "review"

\* a rejected order matched by an instruction on all six criteria, and a
\* cancelled order matched by a call only, both flagged
C22_Witness ==
    /\ \E r \in records : \E o \in orders :
           /\ r.order.n = o.id.n
           /\ o.status = "rejected"
           /\ r.channel = "email"
           /\ r.matchType = "exact_match"
           /\ r.confidence >= FullConfidence
           /\ \E d \in r.discrepancies : d.kind = "status" /\ d.tag = "review"
    /\ \E r \in records : \E o \in orders :
           /\ r.order.n = o.id.n
           /\ o.status = "cancelled"
           /\ r.channel = "audio"
           /\ \E d \in r.discrepancies : d.kind = "status" /\ d.tag = "review"

\* the polling loop of job j is in flight or scheduled
Polling(j) ==
    [job |-> j, st |-> "fetch"] \in polls
        \/ [job |-> j, st |-> "timer"] \in polls

C24_RunningImpliesPolling ==
    (currentView = "process" /\ isRunning)
        => \/ mounts \in posting
           \/ \E j \in Jobs : jobOwner[j] = mounts /\ Polling(j)

\* C26: once the user has cancelled a running surveillance or left the
\* process view while its job runs (the runner that started the job is no
\* longer mounted), the later completion of the job neither invokes the
\* completion callback nor changes the current view.
C26_CancelledRunIsDiscarded ==
    [][\A j \in Jobs :
           (jobStatus[j] # "none" /\ ~OwnerMounted(j))
               => /\ onCompleteCalls'[j] = onCompleteCalls[j]
                  /\ (statusRead[j] # "completed"
                      /\ statusRead'[j] = "completed")
                         => currentView' = currentView]_vars

\* the jobs of this session that are still running at the backend, the
\* request of a start still pending included
RunningJobs == {j \in Jobs : jobStatus[j] = "running"}

\* C27: from one dashboard session a second surveillance job cannot be
\* started while a job started earlier is still running, and at most one
\* status-polling loop is active at any time.
C27_OneJobAtATime ==
    /\ Cardinality(RunningJobs) + Cardinality(posting) <= 1
    /\ Cardinality({j \in Jobs : Polling(j)}) <= 1

\* the number of rows of a month that carry the property
CountOf(month, Has(_)) ==
    Cardinality({row \in backendOrders : row.month = month /\ Has(row)})

\* the unfiltered counts of a month, straight from the rows
ShowsUnfiltered(month) ==
    LET All(row) == TRUE
        Email(row) == row.status = "Matched"
        Oms(row) == row.status = "OMS_MATCH"
        Audio(row) == row.audio
    IN  /\ realData[month].totalTrades = CountOf(month, All)
        /\ realData[month].emailMatches = CountOf(month, Email)
        /\ realData[month].omsMatches = CountOf(month, Oms)
        /\ realData[month].audioMatches = CountOf(month, Audio)

\* C25: whenever no date filter is applied (start and end date both null)
\* and no request is pending, the metrics displayed for the selected month
\* are that month's unfiltered metrics: applying a filter and clearing it,
\* or switching to another month and back, restores the unfiltered numbers.
C25_ClearRestoresUnfiltered ==
    (dateFilter = NoFilter /\ fetches = {}) => ShowsUnfiltered(selectedMonth)

\* a completed order with no audio, no email and no OMS evidence
NoEvidence(row) ==
    ~row.audio /\ row.status \notin {"Matched", "OMS_MATCH"}

\* C30: the Unmatched Orders count that fetchRealData stores for a month is
\* never negative and equals the number of completed orders of the month
\* with no audio, no email and no OMS evidence, also when some order has
\* evidence from more than one channel.
C30_UnmatchedCount ==
    [][(RealFetch \in fetches /\ RealFetch \notin fetches') =>
           \A m \in Months :
               /\ realData'[m].unmatchedOrders >= 0
               /\ realData'[m].unmatchedOrders = CountOf(m, NoEvidence)]_vars

\* the file is within the size limit of the type and has one of its
\* accepted extensions
ValidFor(file, fileType) ==
    /\ file.size <= FILE_TYPES[fileType].maxSize * MB
    /\ toLowerCase(file.name[Len(file.name)])
           \in FILE_TYPES[fileType].acceptedTypes

\* C28: in one file selection, if any file fails validation (size above the
\* selected type's limit, or extension not in its accepted list), no file of
\* that selection is uploaded; uploads begin only when every selected file
\* is valid.
C28_AllOrNothingUpload ==
    [][(uploadedFiles' \ uploadedFiles) # {} /\ uploadCount' # uploadCount =>
           \A i \in DOMAIN selection' :
               ValidFor(selection'[i], selectedFileType)]_vars

\* a selection whose first file is valid and whose second is not was
\* handled: the error is shown and nothing has been uploaded
C28_Witness ==
    /\ Len(selection) = 2
    /\ selectedFileType # "none"
    /\ ValidFor(selection[1], selectedFileType)
    /\ ~ValidFor(selection[2], selectedFileType)
    /\ uploadError # "none"
    /\ uploadCount = 0
    /\ uploadedFiles = {}

\* the lowest non-zero confidence, in tenths of a percent: client and side
\* only, 115 of 180 points
PartialMatchFloor == 639

\* the lower edge of the band "partial match flagged for review"
ReviewBand == 600

====
